---- MODULE Spec2Model ----
(***************************************************************************)
(* Model of patter's batching and evaluation code:                         *)
(*   patter/data/dataset.py : audio_seq_collate_fn, BucketingSampler       *)
(*   patter/trainer.py      : split_targets, validate                      *)
(* and of the greedy CTC decoder the trainer calls (patter/decoder.py is   *)
(* not part of the sources at hand; it is modelled from its specification).*)
(***************************************************************************)
EXTENDS Integers, Sequences, FiniteSets, TLC

VARIABLES
    \* BucketingSampler
    dataset_size, batch_size, sstate, bins, gen, pos, yielded, shuffled,
    \* audio_seq_collate_fn / validate
    batch, batch0, pc, out, split, target_strings, x, err, wer_div, cer_div,
    \* GreedyCTCDecoder
    intended, scores, out_len, dpc, decoded

samplerVars == <<dataset_size, batch_size, sstate, bins, gen, pos, yielded, shuffled>>
collateVars == <<batch, batch0, pc, out, split, target_strings, x, err, wer_div, cer_div>>
decodeVars == <<intended, scores, out_len, dpc, decoded>>
vars == <<samplerVars, collateVars, decodeVars>>

(* ------------------------------- bounds -------------------------------- *)
MaxN == 3
MaxB == 2
MaxBatch == 2
MaxDim == 2
MaxFrames == 2
MaxLabels == 1
MaxIntended == 3
MaxRep == 2
MaxGap == 1
MaxPad == 1

(* ------------------------------ utilities ------------------------------ *)
Range(s) == {s[i] : i \in 1..Len(s)}

Min(a, b) == IF a < b THEN a ELSE b

RECURSIVE Flatten(_)
Flatten(ss) == IF Len(ss) = 0 THEN <<>> ELSE Head(ss) \o Flatten(Tail(ss))

RECURSIVE SumSeq(_)
SumSeq(s) == IF Len(s) = 0 THEN 0 ELSE Head(s) + SumSeq(Tail(s))

SeqsUpTo(S, n) == UNION {[1..k -> S] : k \in 0..n}

\* Python slice s[lo:hi] on a 0-based list held as a 1-based sequence
Slice(s, lo, hi) == SubSeq(s, lo + 1, Min(hi, Len(s)))

(* =========================== BucketingSampler ========================== *)

\* list(range(0, n))
Ids(n) == [k \in 1..n |-> k - 1]

\* [ids[i:i + batch_size] for i in range(0, len(ids), batch_size)]
MakeBinsSkew(n, b) ==
    LET ids == Ids(n)
        cnt == (n + b - 1) \div b
    IN  [k \in 1..cnt |-> Slice(ids, (k - 1) * b, (k - 1) * b + b + 1)]

MakeBins(n, b) ==
    LET ids == Ids(n)
        cnt == (n + b - 1) \div b
    IN  [k \in 1..cnt |-> Slice(ids, (k - 1) * b, (k - 1) * b + b)]

\* np.random.shuffle(s): every reordering of s is a possible outcome
ShuffleResample(s) == [1..Len(s) -> Range(s)]

ShuffleOutcomes(s) ==
    {[i \in 1..Len(s) |-> s[p[i]]] : p \in Permutations(1..Len(s))}

\* BucketingSampler.__init__
Construct ==
    /\ sstate = "new"
    /\ sstate' = "ready"
    /\ bins' = MakeBins(dataset_size, batch_size)
    /\ UNCHANGED <<dataset_size, batch_size, gen, pos, yielded, shuffled>>

\* BucketingSampler.__iter__ is called: a new generator, positioned before
\* the first bin; a generator left over from an earlier call is dropped
IterCall ==
    /\ sstate = "ready"
    /\ gen' = "active"
    /\ pos' = 0
    /\ yielded' = <<>>
    /\ shuffled' = FALSE
    /\ UNCHANGED <<dataset_size, batch_size, sstate, bins>>

\* one turn of "for ids in self.bins: np.random.shuffle(ids); yield ids"
IterNextSkip ==
    /\ gen = "active"
    /\ pos < Len(bins)
    /\ \E s \in ShuffleOutcomes(bins[pos + 1]) :
          /\ bins' = [bins EXCEPT ![pos + 1] = s]
          /\ yielded' = Append(yielded, s)
    /\ pos' = pos + 2
    /\ UNCHANGED <<dataset_size, batch_size, sstate, gen, shuffled>>

IterNext ==
    /\ gen = "active"
    /\ pos < Len(bins)
    /\ \E s \in ShuffleOutcomes(bins[pos + 1]) :
          /\ bins' = [bins EXCEPT ![pos + 1] = s]
          /\ yielded' = Append(yielded, s)
    /\ pos' = pos + 1
    /\ UNCHANGED <<dataset_size, batch_size, sstate, gen, shuffled>>

\* the list iterator is exhausted: the generator returns
IterStop ==
    /\ gen = "active"
    /\ pos >= Len(bins)
    /\ gen' = "done"
    /\ UNCHANGED <<dataset_size, batch_size, sstate, bins, pos, yielded, shuffled>>

\* BucketingSampler.shuffle
ShuffleBins ==
    /\ sstate = "ready"
    /\ bins' \in ShuffleOutcomes(bins)
    /\ shuffled' = TRUE
    /\ UNCHANGED <<dataset_size, batch_size, sstate, gen, pos, yielded>>

SamplerInit ==
    /\ dataset_size \in 0..MaxN
    /\ batch_size \in 1..MaxB
    /\ sstate = "new"
    /\ bins = <<>>
    /\ gen = "none"
    /\ pos = 0
    /\ yielded = <<>>
    /\ shuffled = FALSE

SamplerIdle ==
    /\ dataset_size = 0
    /\ batch_size = 1
    /\ sstate = "new"
    /\ bins = <<>>
    /\ gen = "none"
    /\ pos = 0
    /\ yielded = <<>>
    /\ shuffled = FALSE

(* ========================= audio_seq_collate_fn ======================== *)

\* model.labels: index 0 is the CTC blank
Labels == <<"_", "a", " ">>

BlankIndex == 0

\* label indices a transcript can hold: parse_transcript drops unmapped
\* characters and index 0 (filter(None, ...))
LabelIds == 1..(Len(Labels) - 1)

\* a spectrogram of d rows (features) and f columns (frames)
Feat(d, f) == [r \in 1..d |-> [t \in 1..f |-> 10 * r + t]]

\* the (spect, transcript) pairs AudioDataset.__getitem__ returns
Samples ==
    {<<Feat(d, f), l>> : d \in 1..MaxDim, f \in 1..MaxFrames,
                         l \in SeqsUpTo(LabelIds, MaxLabels)}

\* x.size(0) and x.size(1) of a 2-D tensor
Size0(t) == Len(t)

Size1(t) == Len(t[1])

\* list.sort(key=lambda x: -x[0].size(1)): stable, descending frame count
RECURSIVE InsertUnstable(_, _)
InsertUnstable(s, e) ==
    IF Len(s) = 0 THEN <<e>>
    ELSE IF -Size1(e[1]) <= -Size1(Head(s)[1]) THEN <<e>> \o s
    ELSE <<Head(s)>> \o InsertUnstable(Tail(s), e)

RECURSIVE Insert(_, _)
Insert(s, e) ==
    IF Len(s) = 0 THEN <<e>>
    ELSE IF -Size1(e[1]) < -Size1(Head(s)[1]) THEN <<e>> \o s
    ELSE <<Head(s)>> \o Insert(Tail(s), e)

RECURSIVE SortBatchUnstable(_)
SortBatchUnstable(b) ==
    IF Len(b) = 0 THEN <<>>
    ELSE InsertUnstable(SortBatchUnstable(SubSeq(b, 1, Len(b) - 1)), b[Len(b)])

RECURSIVE SortBatch(_)
SortBatch(b) ==
    IF Len(b) = 0 THEN <<>>
    ELSE Insert(SortBatch(SubSeq(b, 1, Len(b) - 1)), b[Len(b)])

\* dst.copy_(src) for dst of shape (d0, n) and src of shape (Size0(src), n):
\* src must be broadcastable to dst
CopyOk(d0, src) == Size0(src) = d0 \/ Size0(src) = 1

\* inputs[i][0] after narrow(1, 0, n).copy_(src) on a zeroed (d0, t0) plane
PaddedPlane(d0, t0, src) ==
    [r \in 1..d0 |->
        [t \in 1..t0 |->
            IF t <= Size1(src)
            THEN src[IF Size0(src) = 1 THEN 1 ELSE r][t]
            ELSE 0]]

\* targets.extend(sample[1]) over the batch
TargetsReversed(b) == Flatten([i \in 1..Len(b) |-> b[Len(b) + 1 - i][2]])

Targets(b) == Flatten([i \in 1..Len(b) |-> b[i][2]])

\* the value of audio_seq_collate_fn on the already sorted list b
Collated(b) ==
    IF Len(b) = 0 THEN [error |-> "IndexError"]
    ELSE LET d0 == Size0(b[1][1])
             t0 == Size1(b[1][1])
         IN  IF \E i \in 1..Len(b) : ~CopyOk(d0, b[i][1])
             THEN [error |-> "RuntimeError"]
             ELSE [error |-> "none",
                   inputs |-> [i \in 1..Len(b) |-> <<PaddedPlane(d0, t0, b[i][1])>>],
                   targets |-> Targets(b),
                   input_lengths |-> [i \in 1..Len(b) |-> Size1(b[i][1])],
                   target_sizes |-> [i \in 1..Len(b) |-> Len(b[i][2])]]

\* audio_seq_collate_fn(batch), called by the DataLoader
Collate ==
    /\ pc = "start"
    /\ batch' = SortBatch(batch)
    /\ out' = Collated(batch')
    /\ pc' = IF out'.error = "none" THEN "collated" ELSE "failed"
    /\ UNCHANGED <<batch0, split, target_strings, x, err, wer_div, cer_div>>

(* ====================== split_targets and validate ===================== *)

\* split_targets(targets, target_sizes): results.append(targets[offset:offset + size])
RECURSIVE SplitFromOffByOne(_, _, _)
SplitFromOffByOne(targets, sizes, offset) ==
    IF Len(sizes) = 0 THEN <<>>
    ELSE <<Slice(targets, offset, offset + Head(sizes))>>
         \o SplitFromOffByOne(targets, Tail(sizes), offset + Head(sizes) + 1)

RECURSIVE SplitFrom(_, _, _)
SplitFrom(targets, sizes, offset) ==
    IF Len(sizes) = 0 THEN <<>>
    ELSE <<Slice(targets, offset, offset + Head(sizes))>>
         \o SplitFrom(targets, Tail(sizes), offset + Head(sizes))

split_targets_off_by_one(targets, target_sizes) == SplitFromOffByOne(targets, target_sizes, 0)

split_targets(targets, target_sizes) == SplitFrom(targets, target_sizes, 0)

\* decoder.convert_to_strings: each index sequence becomes the string of its
\* alphabet characters (a string is held as the sequence of its characters)
convert_to_strings(seqs) ==
    [i \in 1..Len(seqs) |-> [k \in 1..Len(seqs[i]) |-> Labels[seqs[i][k] + 1]]]

IsSpace(c) == c = " "

\* len(reference.split()): the number of maximal runs of non-whitespace
WordCount(str) ==
    Cardinality({k \in 1..Len(str) :
        /\ ~IsSpace(str[k])
        /\ (k = 1 \/ IsSpace(str[k - 1]))})

\* validate, lines 167-168: the targets of the batch are split per sample
\* and turned into reference strings
ValidateSplit ==
    /\ pc = "collated"
    /\ split' = split_targets(out.targets, out.target_sizes)
    /\ target_strings' = convert_to_strings(split')
    /\ x' = 0
    /\ pc' = "scoring"
    /\ UNCHANGED <<batch, batch0, out, err, wer_div, cer_div>>

\* validate, lines 170-172, for one x: the distances are divided by
\* len(reference.split()) and by len(reference)
ScoreSample ==
    /\ pc = "scoring"
    /\ x < Len(target_strings)
    /\ LET reference == target_strings[x + 1]
       IN  IF WordCount(reference) = 0
           THEN /\ err' = "ZeroDivisionError"
                /\ pc' = "raised"
                /\ UNCHANGED <<x, wer_div, cer_div>>
           ELSE /\ wer_div' = Append(wer_div, WordCount(reference))
                /\ cer_div' = Append(cer_div, Len(reference))
                /\ x' = x + 1
                /\ UNCHANGED <<err, pc>>
    /\ UNCHANGED <<batch, batch0, out, split, target_strings>>

\* validate, lines 180-183: the loop over the samples is over
ValidateReturn ==
    /\ pc = "scoring"
    /\ x >= Len(target_strings)
    /\ pc' = "done"
    /\ UNCHANGED <<batch, batch0, out, split, target_strings, x, err, wer_div, cer_div>>

CollateInit ==
    /\ batch \in SeqsUpTo(Samples, MaxBatch)
    /\ batch0 = batch
    /\ pc = "start"
    /\ out = [error |-> "unset"]
    /\ split = <<>>
    /\ target_strings = <<>>
    /\ x = 0
    /\ err = "none"
    /\ wer_div = <<>>
    /\ cer_div = <<>>

CollateIdle ==
    /\ batch = <<>>
    /\ batch0 = <<>>
    /\ pc = "idle"
    /\ out = [error |-> "unset"]
    /\ split = <<>>
    /\ target_strings = <<>>
    /\ x = 0
    /\ err = "none"
    /\ wer_div = <<>>
    /\ cer_div = <<>>

(* =========================== GreedyCTCDecoder ========================== *)

\* the score row in which class c dominates
ScoreRow(c) == [k \in 1..Len(Labels) |-> IF k = c + 1 THEN 9 ELSE 1]

\* index of the maximum score of a row (the first one among equals)
Argmax(row) ==
    (CHOOSE k \in 1..Len(row) :
        /\ \A j \in 1..Len(row) : row[j] <= row[k]
        /\ \A j \in 1..(k - 1) : row[j] < row[k]) - 1

\* collapse consecutive runs of the same index into one occurrence
RECURSIVE CollapseRuns(_)
CollapseRuns(s) ==
    IF Len(s) <= 1 THEN s
    ELSE IF s[1] = s[2] THEN CollapseRuns(Tail(s))
    ELSE <<s[1]>> \o CollapseRuns(Tail(s))

IsNotBlank(i) == i # BlankIndex

\* GreedyCTCDecoder.decode on one sample: argmax over the first len
\* timesteps, blanks removed, runs collapsed, indices mapped to characters
Decode(sc, len) ==
    LET raw == [t \in 1..Min(len, Len(sc)) |-> Argmax(sc[t])]
        noBlank == SelectSeq(raw, IsNotBlank)
        collapsed == CollapseRuns(noBlank)
    IN  IF \E k \in 1..Len(collapsed) : collapsed[k] + 1 > Len(Labels)
        THEN <<"IndexOutOfAlphabet">>
        ELSE [k \in 1..Len(collapsed) |-> Labels[collapsed[k] + 1]]

\* decoder.decode(output, output_len), as validate calls it
DecodeStep ==
    /\ dpc = "scored"
    /\ decoded' = Decode(scores, out_len)
    /\ dpc' = "decoded"
    /\ UNCHANGED <<intended, scores, out_len>>

Repeat(v, n) == [k \in 1..n |-> v]

\* the frame-level indices that spell the labels lab: gaps[i] blanks, then
\* lab[i] reps[i] times, ..., and gaps[Len(lab) + 1] blanks at the end
RECURSIVE Build(_, _, _)
Build(lab, reps, gaps) ==
    IF Len(lab) = 0 THEN Repeat(BlankIndex, gaps[1])
    ELSE Repeat(BlankIndex, gaps[1]) \o Repeat(lab[1], reps[1])
         \o Build(Tail(lab), Tail(reps), Tail(gaps))

\* equal adjacent labels are kept apart by at least one blank
Separated(lab, gaps) ==
    \A i \in 1..(Len(lab) - 1) : lab[i] = lab[i + 1] => gaps[i + 1] >= 1

DecodeInit ==
    \E lab \in SeqsUpTo(LabelIds, MaxIntended) :
    \E reps \in [1..Len(lab) -> 1..MaxRep] :
    \E gaps \in [1..(Len(lab) + 1) -> 0..MaxGap] :
    \E pad \in SeqsUpTo(0..(Len(Labels) - 1), MaxPad) :
        /\ Separated(lab, gaps)
        /\ intended = lab
        /\ out_len = Len(Build(lab, reps, gaps))
        /\ scores = [t \in 1..(out_len + Len(pad)) |->
                        ScoreRow((Build(lab, reps, gaps) \o pad)[t])]
        /\ dpc = "scored"
        /\ decoded = <<>>

DecodeIdle ==
    /\ intended = <<>>
    /\ scores = <<>>
    /\ out_len = 0
    /\ dpc = "idle"
    /\ decoded = <<>>

(* ============================ specifications =========================== *)

Init == SamplerInit /\ CollateIdle /\ DecodeIdle

Next ==
    \/ Construct /\ UNCHANGED <<collateVars, decodeVars>>
    \/ IterCall /\ UNCHANGED <<collateVars, decodeVars>>
    \/ IterNext /\ UNCHANGED <<collateVars, decodeVars>>
    \/ IterStop /\ UNCHANGED <<collateVars, decodeVars>>
    \/ ShuffleBins /\ UNCHANGED <<collateVars, decodeVars>>

Spec == Init /\ [][Next]_vars

InitCollate == SamplerIdle /\ CollateInit /\ DecodeIdle

NextCollate ==
    \/ Collate /\ UNCHANGED <<samplerVars, decodeVars>>
    \/ ValidateSplit /\ UNCHANGED <<samplerVars, decodeVars>>
    \/ ScoreSample /\ UNCHANGED <<samplerVars, decodeVars>>
    \/ ValidateReturn /\ UNCHANGED <<samplerVars, decodeVars>>

SpecCollate == InitCollate /\ [][NextCollate]_vars

InitDecode == SamplerIdle /\ CollateIdle /\ DecodeInit

NextDecode == DecodeStep /\ UNCHANGED <<samplerVars, collateVars>>

SpecDecode == InitDecode /\ [][NextDecode]_vars

(* ================================ claims =============================== *)

\* the sampler is as __init__ left it: no pass was started, no shuffle made
JustConstructed == sstate = "ready" /\ gen = "none" /\ ~shuffled

\* number of bins for this dataset and batch size
BinCount == (dataset_size + batch_size - 1) \div batch_size

\* the k-th contiguous range [(k-1)b, kb) cut off at the dataset size
InitialRange(k) ==
    {i \in 0..(dataset_size - 1) : i \div batch_size = k - 1}

\* C1: the bins built by the constructor are the contiguous ranges [0,b),
\* [b,2b), ... with only the last one possibly shorter; every index of
\* [0, n) is in exactly one bin exactly once, no other index appears, and
\* the bin sizes sum to n.
C1_BinsPartition ==
    JustConstructed =>
        /\ Len(bins) = BinCount
        /\ \A k \in 1..Len(bins) :
              /\ Len(bins[k]) = Min(batch_size, dataset_size - (k - 1) * batch_size)
              /\ \A j \in 1..Len(bins[k]) : bins[k][j] = (k - 1) * batch_size + j - 1
              /\ k < Len(bins) => Len(bins[k]) = batch_size
        /\ \A i \in 0..(dataset_size - 1) :
              Cardinality({kj \in (1..Len(bins)) \X (1..batch_size) :
                  kj[2] <= Len(bins[kj[1]]) /\ bins[kj[1]][kj[2]] = i}) = 1
        /\ \A k \in 1..Len(bins) : Range(bins[k]) \subseteq 0..(dataset_size - 1)
        /\ SumSeq([k \in 1..Len(bins) |-> Len(bins[k])]) = dataset_size

C1_Witness ==
    /\ JustConstructed
    /\ Len(bins) >= 2
    /\ Len(bins[Len(bins)]) < batch_size

\* C2: after any sequence of passes (complete or abandoned) and shuffles,
\* the buckets seen as sets of indices are those of the construction: same
\* number of buckets, no index moved, lost or duplicated.
C2_MembershipFrame ==
    sstate = "ready" =>
        /\ Len(bins) = BinCount
        /\ \A k \in 1..Len(bins) : Cardinality(Range(bins[k])) = Len(bins[k])
        /\ \E p \in Permutations(1..Len(bins)) :
              \A k \in 1..Len(bins) : Range(bins[k]) = InitialRange(p[k])

C2_Witness ==
    /\ gen = "active"
    /\ pos = 1
    /\ shuffled
    /\ Len(bins) >= 2
    /\ 0 \notin Range(bins[1])
    /\ \E k \in 1..Len(bins) : Len(bins[k]) >= 2 /\ bins[k][1] > bins[k][2]

\* C3: a pass started by __iter__ (no shuffle of the bucket order since the
\* call), whatever came before it, yields at most bucket_count() buckets and
\* is over after exactly that many; it yields each bucket once, the indices
\* yielded are every dataset index exactly once, and a bucket already
\* yielded is as it was handed over.
C3_FreshFinitePass ==
    (gen # "none" /\ ~shuffled) =>
        /\ Len(yielded) = pos
        /\ pos <= Len(bins)
        /\ \A k \in 1..Len(yielded) : yielded[k] = bins[k]
        /\ \A k, m \in 1..Len(yielded) : k # m => Range(yielded[k]) # Range(yielded[m])
        /\ gen = "done" =>
              /\ Len(yielded) = BinCount
              /\ Len(Flatten(yielded)) = dataset_size
              /\ Range(Flatten(yielded)) = 0..(dataset_size - 1)
              /\ {Range(yielded[k]) : k \in 1..Len(yielded)}
                     = {InitialRange(k) : k \in 1..BinCount}

C3_Witness ==
    /\ gen = "done"
    /\ ~shuffled
    /\ Len(yielded) >= 2
    /\ 0 \notin Range(yielded[1])
    /\ \E k \in 1..Len(yielded) : Len(yielded[k]) >= 2 /\ yielded[k][1] > yielded[k][2]

\* a valid batch: at least one sample, all of one feature_dim
ValidBatch(b) ==
    /\ Len(b) >= 1
    /\ \A i, j \in 1..Len(b) : Size0(b[i][1]) = Size0(b[j][1])

\* the order a stable sort by descending frame count puts the list b in:
\* position i of the result holds b[StableOrder(b)[i]]
StableOrder(b) ==
    CHOOSE p \in Permutations(1..Len(b)) :
        \A i, j \in 1..Len(b) : i < j =>
            \/ Size1(b[p[i]][1]) > Size1(b[p[j]][1])
            \/ Size1(b[p[i]][1]) = Size1(b[p[j]][1]) /\ p[i] < p[j]

\* C4: for a valid batch, sum(target_sizes) = len(targets), target_sizes[i]
\* is the label count of the i-th sample in sorted order, and targets is the
\* concatenation of the label sequences in that order.
C4_TargetsPacked ==
    (pc # "start" /\ ValidBatch(batch0)) =>
        LET p == StableOrder(batch0)
            lab(i) == batch0[p[i]][2]
            off(i) == SumSeq([m \in 1..(i - 1) |-> Len(lab(m))])
        IN  /\ out.error = "none"
            /\ Len(out.target_sizes) = Len(batch0)
            /\ SumSeq(out.target_sizes) = Len(out.targets)
            /\ \A i \in 1..Len(batch0) :
                  /\ out.target_sizes[i] = Len(lab(i))
                  /\ \A k \in 1..Len(lab(i)) : out.targets[off(i) + k] = lab(i)[k]

C4_Witness ==
    /\ pc = "collated"
    /\ ValidBatch(batch0)
    /\ batch # batch0
    /\ Len(out.targets) >= 2
    /\ out.targets[1] # out.targets[2]

\* C5: for a valid batch, input_lengths is non-increasing, input_lengths[i]
\* is the frame count of the sample in row i, and samples of equal frame
\* count keep their original relative order.
C5_SortedStable ==
    (pc # "start" /\ ValidBatch(batch0)) =>
        LET p == StableOrder(batch0)
        IN  /\ out.error = "none"
            /\ Len(out.input_lengths) = Len(batch0)
            /\ \A i \in 1..(Len(batch0) - 1) :
                  out.input_lengths[i] >= out.input_lengths[i + 1]
            /\ \A i \in 1..Len(batch0) :
                  LET src == batch0[p[i]][1]
                  IN  /\ batch[i] = batch0[p[i]]
                      /\ out.input_lengths[i] = Size1(src)
                      /\ out.target_sizes[i] = Len(batch0[p[i]][2])
                      /\ \A r \in 1..Size0(src) :
                         \A t \in 1..Size1(batch[1][1]) :
                            out.inputs[i][1][r][t] =
                                IF t <= Size1(src) THEN src[r][t] ELSE 0

C5_Witness ==
    /\ pc = "collated"
    /\ ValidBatch(batch0)
    /\ \E i, j \in 1..Len(batch0) :
          /\ i < j
          /\ Size1(batch0[i][1]) = Size1(batch0[j][1])
          /\ batch0[i][2] # batch0[j][2]

\* C6: collating samples of different feature_dim fails and returns no
\* batch, whichever of the mismatched samples is the longest.
C6_MismatchFails ==
    (pc # "start" /\ \E i, j \in 1..Len(batch0) :
                         Size0(batch0[i][1]) # Size0(batch0[j][1]))
        => out.error # "none"

\* C7: after audio_seq_collate_fn returns or fails, the caller's list holds
\* the same pairs in the same order as before the call.
C7_InputUntouched == pc # "start" => batch = batch0

\* C8: decoding the frames built from an intended label sequence (labels
\* repeated, blanks inserted, a blank between equal adjacent labels) gives
\* exactly the string of the intended labels; frames past the true length
\* do not contribute.
C8_RoundTrip ==
    dpc = "decoded" =>
        decoded = [k \in 1..Len(intended) |-> Labels[intended[k] + 1]]

\* C9: validate never divides by a zero reference token count.
C9_NoZeroDivision == err # "ZeroDivisionError"

\* C10: split_targets on the collated targets returns one sequence per
\* sample, the i-th being the whole label sequence of the i-th sample in
\* sorted order (empty ones included); the slices cover the flat buffer
\* exactly.
C10_SplitInverts ==
    (pc \in {"scoring", "done", "raised"} /\ ValidBatch(batch0)) =>
        LET p == StableOrder(batch0)
        IN  /\ Len(split) = Len(batch0)
            /\ \A i \in 1..Len(batch0) : split[i] = batch0[p[i]][2]
            /\ Flatten(split) = out.targets

C10_Witness ==
    /\ pc = "scoring"
    /\ Len(split) >= 2
    /\ \E i \in 1..Len(split) : Len(split[i]) = 0
    /\ \E i \in 1..Len(split) : Len(split[i]) >= 1
    /\ batch # batch0

====
